---- MODULE Spec2Model ----
(***************************************************************************)
(* A model of mealie-api.py: one command-line invocation, from sys.argv    *)
(* to sys.exit.  Python strings the program inspects character by          *)
(* character (flag and method arguments, payload keys, payload string      *)
(* values, file paths) are sequences of one-character strings.  An         *)
(* Optional value is a sequence of length at most one: <<>> is None.       *)
(***************************************************************************)
EXTENDS Integers, Sequences, FiniteSets, TLC

VARIABLES
    argv,             \* sys.argv[1:], the input of the run
    environ,          \* os.environ: MEALIE_URL and MEALIE_TOKEN
    pc,               \* position of main()
    raw_output, verbose, multipart,
    args,             \* main's list after the flags were removed
    endpoint, json_payload_str, http_method,
    payload,          \* Optional parsed payload
    method,           \* Optional method string
    headers,          \* header names of the request
    files, data,      \* prepare_file_upload's two dicts, as item sequences
    open_files,       \* file objects opened and not yet closed
    pending,          \* Optional request about to be handed to requests.request
    sent,             \* the calls of requests.request made so far
    response,         \* Optional response
    out,              \* what was printed, one entry per message
    exit_code         \* Optional exit status of the process

vars == <<argv, environ, pc, raw_output, verbose, multipart, args, endpoint,
          json_payload_str, http_method, payload, method, headers, files, data,
          open_files, pending, sent, response, out, exit_code>>

-----------------------------------------------------------------------------
(* Bounds of the inputs *)

\* longest argument list of the argument-parsing runs
MaxArgs == 4

\* most fields of a generated payload object of the classification runs
MaxFields == 2

-----------------------------------------------------------------------------
(* Optional values and Python strings *)

None == <<>>

Some(x) == <<x>>

UpperAlpha == <<"A","B","C","D","E","F","G","H","I","J","K","L","M",
                "N","O","P","Q","R","S","T","U","V","W","X","Y","Z">>

LowerAlpha == <<"a","b","c","d","e","f","g","h","i","j","k","l","m",
                "n","o","p","q","r","s","t","u","v","w","x","y","z">>

\* str.lower() of one character
LowerChar(c) ==
    IF \E i \in 1..26 : UpperAlpha[i] = c
    THEN LowerAlpha[CHOOSE i \in 1..26 : UpperAlpha[i] = c]
    ELSE c

\* str.upper() of one character
UpperChar(c) ==
    IF \E i \in 1..26 : LowerAlpha[i] = c
    THEN UpperAlpha[CHOOSE i \in 1..26 : LowerAlpha[i] = c]
    ELSE c

\* str.lower()
Lower(s) == [i \in 1..Len(s) |-> LowerChar(s[i])]

\* str.upper()
Upper(s) == [i \in 1..Len(s) |-> UpperChar(s[i])]

\* the characters str.strip() removes
IsSpace(c) == c \in {" ", "\t", "\n", "\r"}

\* str.strip()
Strip(s) ==
    IF \A i \in 1..Len(s) : IsSpace(s[i])
    THEN <<>>
    ELSE LET first == CHOOSE i \in 1..Len(s) :
                          /\ ~IsSpace(s[i])
                          /\ \A j \in 1..(i - 1) : IsSpace(s[j])
             last  == CHOOSE i \in 1..Len(s) :
                          /\ ~IsSpace(s[i])
                          /\ \A j \in (i + 1)..Len(s) : IsSpace(s[j])
         IN  SubSeq(s, first, last)

\* str.startswith(prefix)
StartsWith(s, prefix) ==
    /\ Len(s) >= Len(prefix)
    /\ SubSeq(s, 1, Len(prefix)) = prefix

\* s.split('/')[-1]: what follows the last '/', the whole string without one
LastSegment(s) ==
    LET slashes == {i \in 1..Len(s) : s[i] = "/"}
        cut     == IF slashes = {} THEN 0
                   ELSE CHOOSE i \in slashes : \A j \in slashes : j <= i
    IN  SubSeq(s, cut + 1, Len(s))

\* c in s, for a one-character c
Contains(s, c) == \E i \in 1..Len(s) : s[i] = c

-----------------------------------------------------------------------------
(* JSON values and command-line arguments *)

\* a JSON string value
Str(s) == [t |-> "str", s |-> s]

\* a JSON number value, s its literal
Num(s) == [t |-> "num", s |-> s]

\* isinstance(value, str)
IsStr(v) == v.t = "str"

\* a JSON object: items is the sequence of its <<key, value>> pairs, in order
Dict(items) == [t |-> "dict", items |-> items]

\* the JSON array [1], the payload that is valid JSON and no object
ListOne == [t |-> "list", items |-> <<>>]

\* json.loads raising JSONDecodeError
DecodeError == <<>>

\* the JSON text of a string
Quote(s) == <<"\"">> \o s \o <<"\"">>

\* the JSON text of a field value
ValText(v) == IF IsStr(v) THEN Quote(v.s) ELSE v.s

RECURSIVE ItemsText(_)
\* the JSON text of an object's members
ItemsText(items) ==
    IF items = <<>> THEN <<>>
    ELSE LET head == Quote(items[1][1]) \o <<":">> \o ValText(items[1][2])
         IN  IF Len(items) = 1 THEN head
             ELSE head \o <<",">> \o ItemsText(Tail(items))

\* A command-line argument: its text, what json.loads returns for the text
\* (DecodeError, or Some of the decoded value, None for null), and what
\* json.loads returns for the text after the escape replacements of
\* parse_json_payload.
Word(text) == [text |-> text, json |-> DecodeError, fixed |-> DecodeError]

\* the argument that is the JSON text of the object with these items
ObjTok(items) ==
    [text  |-> <<"{">> \o ItemsText(items) \o <<"}">>,
     json  |-> Some(Some(Dict(items))),
     fixed |-> Some(Some(Dict(items)))]

\* the argument null
NullTok ==
    [text |-> <<"n","u","l","l">>, json |-> Some(None), fixed |-> Some(None)]

\* the argument [1]
ListTok ==
    [text  |-> <<"[","1","]">>,
     json  |-> Some(Some(ListOne)),
     fixed |-> Some(Some(ListOne))]

\* payload keys
K_archive == <<"a","r","c","h","i","v","e">>

K_File == <<"F","i","l","e">>

K_name == <<"n","a","m","e">>

\* payload values
V_home == Str(<<"~","/","b",".","z">>)

V_abs == Str(<<"/","t","/","x">>)

V_rel == Str(<<"a",".","t">>)

V_dotdir == Str(<<"a",".","b","/","c">>)

V_plain == Str(<<"T","e","s","t">>)

V_num == Num(<<"5">>)

\* the argument {"name":"a\ b"}: no JSON until the backslash before the space
\* is removed, then the object {"name":"a b"}
EscTok ==
    [text  |-> <<"{">> \o Quote(K_name) \o <<":">>
                 \o Quote(<<"a","\\"," ","b">>) \o <<"}">>,
     json  |-> DecodeError,
     fixed |-> Some(Some(Dict(<< <<K_name, Str(<<"a"," ","b">>)>> >>)))]

\* the user's home directory
Home == <<"/","h">>

\* the regular files of the file system the run sees
ExistingFiles == { Home \o <<"/","b",".","z">>, <<"a",".","t">> }

\* flags, help, endpoint and method arguments
F_r == Word(<<"-","r">>)

F_raw == Word(<<"-","-","r","a","w">>)

F_v == Word(<<"-","v">>)

F_verbose == Word(<<"-","-","v","e","r","b","o","s","e">>)

F_m == Word(<<"-","m">>)

F_multipart == Word(<<"-","-","m","u","l","t","i","p","a","r","t">>)

F_h == Word(<<"-","h">>)

F_help == Word(<<"-","-","h","e","l","p">>)

A_recipes == Word(<<"r","e","c","i","p","e","s">>)

A_empty == Word(<<>>)

A_blank == Word(<<" ">>)

A_put == Word(<<"p","u","t">>)

A_DELETE == Word(<<"D","E","L","E","T","E">>)

A_Patch == Word(<<"P","a","t","c","h">>)

-----------------------------------------------------------------------------
(* The functions of the program *)

\* Python's `not x` for an Optional environment string
NotSet(x) == x = None \/ x = Some("")

\* validate_environment without the test of MEALIE_TOKEN
validate_environment_url_only(env) ==
    IF NotSet(env.MEALIE_URL) THEN "MEALIE_URL" ELSE "ok"

\* validate_environment: "ok", or the variable whose absence ends the run
validate_environment(env) ==
    IF NotSet(env.MEALIE_URL) THEN "MEALIE_URL"
    ELSE IF NotSet(env.MEALIE_TOKEN) THEN "MEALIE_TOKEN"
    ELSE "ok"

\* parse_json_payload: exits (ok = FALSE) or returns the Optional payload;
\* out is what it printed
parse_json_payload(p) ==
    IF p.text = <<>> \/ Strip(p.text) = <<>>
    THEN [ok |-> TRUE, payload |-> None, out |-> <<>>]
    ELSE IF p.json # DecodeError
    THEN [ok |-> TRUE, payload |-> p.json[1], out |-> <<>>]
    ELSE IF p.fixed # DecodeError
    THEN [ok |-> TRUE, payload |-> p.fixed[1],
          out |-> <<"Fixed shell escapes in JSON payload">>]
    ELSE [ok |-> FALSE, payload |-> None,
          out |-> <<"Fixed shell escapes in JSON payload",
                    "Error: Invalid JSON payload",
                    "Original payload", "Attempted fix">>]

M_GET == <<"G","E","T">>

M_POST == <<"P","O","S","T">>

M_PUT == <<"P","U","T">>

M_PATCH == <<"P","A","T","C","H">>

\* Python's truth value of an Optional payload
Truthy(p) == p # None /\ (p[1].t = "dict" => Len(p[1].items) > 0)

\* determine_method testing the payload's truth value instead of `is not None`
determine_method_truthy(p, m) ==
    IF m # None /\ m[1] # <<>> THEN Upper(m[1])
    ELSE IF Truthy(p) THEN M_POST
    ELSE M_GET

\* determine_method: m is the Optional text of the method argument
determine_method(p, m) ==
    IF m # None /\ m[1] # <<>> THEN Upper(m[1])
    ELSE IF p # None THEN M_POST
    ELSE M_GET

\* the key names that mark a file field
FileKeys == { K_archive,
              <<"f","i","l","e">>,
              <<"u","p","l","o","a","d">>,
              <<"a","t","t","a","c","h","m","e","n","t">> }

\* the condition with the key compared as written, not in lower case
IsFileRef_CaseSensitive(key, value) ==
    /\ IsStr(value)
    /\ \/ key \in FileKeys
       \/ StartsWith(value.s, <<"~","/">>)
       \/ StartsWith(value.s, <<"/">>)
       \/ Contains(LastSegment(value.s), ".")

\* the condition under which prepare_file_upload takes a field for a file
IsFileRef(key, value) ==
    /\ IsStr(value)
    /\ \/ Lower(key) \in FileKeys
       \/ StartsWith(value.s, <<"~","/">>)
       \/ StartsWith(value.s, <<"/">>)
       \/ Contains(LastSegment(value.s), ".")

\* os.path.expanduser, for "~" and "~/..." (no "~user" occurs in the inputs)
ExpandUser(path) ==
    IF Len(path) >= 1 /\ path[1] = "~" /\ (Len(path) = 1 \/ path[2] = "/")
    THEN Home \o SubSeq(path, 2, Len(path))
    ELSE path

\* os.path.isfile with the test dropped
IsFile_Unchecked(path) == TRUE

\* os.path.isfile
IsFile(path) == path \in ExistingFiles

RECURSIVE PrepareLoop(_, _, _, _, _)
\* the loop of prepare_file_upload from item i on.  end is "return" or
\* "exit" (sys.exit(1) at a missing file); files holds the <<key, path>> of
\* the file objects opened so far.
PrepareLoop(items, i, fs, ds, msgs) ==
    IF i > Len(items)
    THEN [end |-> "return", files |-> fs, data |-> ds, out |-> msgs]
    ELSE LET key   == items[i][1]
             value == items[i][2]
         IN  IF IsFileRef(key, value)
             THEN LET file_path == ExpandUser(value.s)
                  IN  IF IsFile(file_path)
                      THEN PrepareLoop(items, i + 1,
                                       Append(fs, <<key, file_path>>), ds,
                                       Append(msgs, "Adding file upload"))
                      ELSE [end |-> "exit", files |-> fs, data |-> ds,
                            out |-> Append(msgs, "Error: File not found")]
             ELSE PrepareLoop(items, i + 1, fs, Append(ds, items[i]), msgs)

\* prepare_file_upload; end is "raise" for a payload without items()
prepare_file_upload(p) ==
    IF p.t # "dict"
    THEN [end |-> "raise", files |-> <<>>, data |-> <<>>, out |-> <<>>]
    ELSE PrepareLoop(p.items, 1, <<>>, <<>>, <<>>)

\* print_verbose_request: what it prints, and whether it raises (the
\* multipart listing calls items() on the payload)
print_verbose_request(p, mp) ==
    LET head == <<"=== HTTP REQUEST DEBUG INFO ===", "Headers:">>
    IN  IF ~Truthy(p)
        THEN [raised |-> FALSE, out |-> Append(head, "Request Body: (empty)")]
        ELSE IF ~mp
        THEN [raised |-> FALSE, out |-> Append(head, "Request Body (JSON):")]
        ELSE [raised |-> p[1].t # "dict",
              out |-> Append(head, "Request Body (Multipart Form Data):")]

\* the request information main prints before the request
print_request_info(p, mp, raw, vb) ==
    IF vb THEN print_verbose_request(p, mp)
    ELSE IF ~raw
    THEN [raised |-> FALSE,
          out |-> <<"Making request to">>
                  \o (IF mp THEN <<"Content-Type: multipart/form-data">>
                      ELSE <<>>)
                  \o (IF Truthy(p) THEN <<"Payload">> ELSE <<>>)]
    ELSE [raised |-> FALSE, out |-> <<>>]

H_Authorization == <<"A","u","t","h","o","r","i","z","a","t","i","o","n">>

H_Accept == <<"A","c","c","e","p","t">>

H_ContentType == <<"C","o","n","t","e","n","t","-","T","y","p","e">>

\* the headers main builds
main_headers(mp) ==
    {H_Authorization, H_Accept} \cup (IF mp THEN {} ELSE {H_ContentType})

\* the headers make_request passes with a multipart body
multipart_headers(hs) ==
    {k \in hs : Lower(k) # <<"c","o","n","t","e","n","t","-","t","y","p","e">>}

\* the body methods without PATCH
BodyMethods_NoPatch == {M_POST, M_PUT}

\* the methods make_request sends a body with
BodyMethods == {M_POST, M_PUT, M_PATCH}

\* the test of make_request for sending a body
HasBody(m, p) == m \in BodyMethods /\ p # None

\* the status banner of format_response
banner(status) ==
    IF 200 <= status /\ status < 300 THEN "Success"
    ELSE IF 400 <= status /\ status < 500 THEN "Client Error"
    ELSE IF 500 <= status /\ status < 600 THEN "Server Error"
    ELSE "Unexpected Status"

\* format_response: what it prints.  r.body is "empty" (nothing but
\* whitespace), "json" (valid JSON) or "text"; "<body>" is the body itself.
format_response(r, raw, vb) ==
    (IF vb THEN <<"=== HTTP RESPONSE DEBUG INFO ===">> ELSE <<>>)
    \o (IF raw THEN <<"<body>">>
        ELSE <<banner(r.status_code)>>
             \o (IF r.body = "empty"
                 THEN IF 200 <= r.status_code /\ r.status_code < 300
                      THEN <<"Success but no response body received">>
                      ELSE <<"No response body received">>
                 ELSE <<"Response:">>
                      \o (IF r.content_type = "application/json"
                          THEN IF r.body = "json" THEN <<"<pretty json>">>
                               ELSE <<"Response claims to be JSON but is not valid JSON:",
                                      "<body>">>
                          ELSE IF r.content_type = "text/html"
                          THEN <<"HTML Response (parsed):", "<formatted html>">>
                          ELSE (IF r.content_type # ""
                                THEN <<"Content-Type:">> ELSE <<>>)
                               \o <<"<body>">>)))

\* the exit status with 300 counted as a success
ExitCodeFor_Through300(status) ==
    IF 200 <= status /\ status <= 300 THEN 0 ELSE 1

\* the exit status main derives from the response
ExitCodeFor(status) == IF 200 <= status /\ status < 300 THEN 0 ELSE 1

-----------------------------------------------------------------------------
(* The inputs of a run *)

\* every sequence over S of length at most n
SeqsUpTo(S, n) == UNION {[1..k -> S] : k \in 0..n}

\* the payload arguments of the full runs
PayloadArgs ==
    { A_empty, A_blank, NullTok, ListTok, EscTok, Word(<<"{">>),
      ObjTok(<<>>),
      ObjTok(<< <<K_name, V_plain>> >>),
      ObjTok(<< <<K_archive, V_home>>, <<K_name, V_plain>> >>),
      ObjTok(<< <<K_name, V_abs>> >>),
      ObjTok(<< <<K_archive, V_home>>, <<K_File, V_abs>> >>) }

\* the method arguments of the full runs
MethodArgs == { A_empty, A_put, A_DELETE, A_Patch }

\* the positional arguments of the full runs
Positionals ==
    { <<>>, <<F_h>>, <<A_recipes>> }
    \cup { <<A_recipes, p>> : p \in PayloadArgs }
    \cup { <<A_recipes, p, m>> : p \in PayloadArgs, m \in MethodArgs }

\* the flags of the full runs, each given at most once, after the positionals
FlagTails ==
    { r \o v \o m : r \in {<<>>, <<F_r>>},
                    v \in {<<>>, <<F_verbose>>},
                    m \in {<<>>, <<F_m>>} }

\* the environments: either variable unset, empty or set
Environments ==
    [MEALIE_URL : {None, Some(""), Some("https://mealie.example/")},
     MEALIE_TOKEN : {None, Some(""), Some("token")}]

\* the environment with both variables set
GoodEnvironment ==
    [MEALIE_URL |-> Some("https://mealie.example/"),
     MEALIE_TOKEN |-> Some("token")]

\* the arguments of the argument-parsing runs: every flag spelling, help,
\* an endpoint, a payload and a method, in any order and number
ArgWords ==
    { F_r, F_raw, F_v, F_verbose, F_m, F_multipart, F_h,
      A_recipes, ObjTok(<<>>), A_put }

\* the fields of the generated payload objects
FieldKeys == { K_archive, K_File, K_name }

FieldValues == { V_home, V_abs, V_rel, V_dotdir, V_plain, V_num }

\* the generated payload objects: at most MaxFields fields, distinct keys
GeneratedItems ==
    { items \in SeqsUpTo(FieldKeys \X FieldValues, MaxFields) :
        \A i, j \in 1..Len(items) : i # j => items[i][1] # items[j][1] }

\* the responses the server may give
Responses ==
    [status_code : {199, 200, 299, 300, 404, 500},
     content_type : {"application/json", "text/html", "text/plain"},
     body : {"empty", "json", "text"}]

-----------------------------------------------------------------------------
(* The run *)

\* the state before main runs, for given arguments and environment
Start(av, env) ==
    /\ argv = av
    /\ environ = env
    /\ pc = "main"
    /\ raw_output = FALSE
    /\ verbose = FALSE
    /\ multipart = FALSE
    /\ args = av
    /\ endpoint = None
    /\ json_payload_str = None
    /\ http_method = None
    /\ payload = None
    /\ method = None
    /\ headers = {}
    /\ files = <<>>
    /\ data = <<>>
    /\ open_files = {}
    /\ pending = None
    /\ sent = <<>>
    /\ response = None
    /\ out = <<>>
    /\ exit_code = None

Init ==
    \E pos \in Positionals, fl \in FlagTails, env \in Environments :
        Start(pos \o fl, env)

InitArgs == \E av \in SeqsUpTo(ArgWords, MaxArgs) : Start(av, GoodEnvironment)

InitClassify ==
    \E items \in GeneratedItems, m \in {<<>>, <<A_put>>, <<A_DELETE>>} :
        Start(<<F_m, A_recipes, ObjTok(items)>> \o m, GoodEnvironment)

\* sys.exit(code) after printing msgs
Exit(code, msgs) ==
    /\ pc' = "done"
    /\ exit_code' = Some(code)
    /\ out' = out \o msgs

\* x in a, for a list of arguments and a text
HasArg(a, text) == \E i \in 1..Len(a) : a[i].text = text

\* list.remove(x): a without its first element equal to x
ListRemove(a, text) ==
    LET i == CHOOSE k \in 1..Len(a) :
                 /\ a[k].text = text
                 /\ \A j \in 1..(k - 1) : a[j].text # text
    IN  SubSeq(a, 1, i - 1) \o SubSeq(a, i + 1, Len(a))

\* one `if flag in args: ...; args.remove(flag)` of main
StripFlag(a, text) == IF HasArg(a, text) THEN ListRemove(a, text) ELSE a

\* main up to the positional arguments (lines 397-436)
Main ==
    /\ pc = "main"
    /\ LET a1 == StripFlag(argv, F_r.text)
           a2 == StripFlag(a1, F_raw.text)
           a3 == StripFlag(a2, F_v.text)
           a4 == StripFlag(a3, F_verbose.text)
           a5 == StripFlag(a4, F_m.text)
           a6 == StripFlag(a5, F_multipart.text)
       IN  /\ raw_output' = (HasArg(argv, F_r.text) \/ HasArg(a1, F_raw.text))
           /\ verbose' = (HasArg(a2, F_v.text) \/ HasArg(a3, F_verbose.text))
           /\ multipart' = (HasArg(a4, F_m.text) \/ HasArg(a5, F_multipart.text))
           /\ args' = a6
           /\ IF Len(a6) = 0 \/ a6[1].text \in {F_h.text, F_help.text}
              THEN /\ Exit(0, <<"Usage">>)
                   /\ UNCHANGED <<endpoint, json_payload_str, http_method>>
              ELSE /\ endpoint' = Some(a6[1].text)
                   /\ json_payload_str' =
                          Some(IF Len(a6) > 1 THEN a6[2] ELSE A_empty)
                   /\ http_method' =
                          IF Len(a6) > 2 THEN Some(a6[3].text) ELSE None
                   /\ pc' = "validate_environment"
                   /\ UNCHANGED <<out, exit_code>>
    /\ UNCHANGED <<argv, environ, payload, method, headers, files, data,
                   open_files, pending, sent, response>>

\* base_url, token = validate_environment() (line 439)
ValidateEnvironment ==
    /\ pc = "validate_environment"
    /\ LET r == validate_environment(environ)
       IN  IF r = "ok"
           THEN /\ pc' = "parse_json_payload"
                /\ UNCHANGED <<out, exit_code>>
           ELSE IF r = "MEALIE_URL"
           THEN Exit(1, <<"Error: MEALIE_URL environment variable is not set",
                          "Set it with: export MEALIE_URL">>)
           ELSE Exit(1, <<"Error: MEALIE_TOKEN environment variable is not set",
                          "Set it with: export MEALIE_TOKEN">>)
    /\ UNCHANGED <<argv, environ, raw_output, verbose, multipart, args,
                   endpoint, json_payload_str, http_method, payload, method,
                   headers, files, data, open_files, pending, sent, response>>

\* payload = parse_json_payload(json_payload_str) (line 443)
ParseJsonPayload ==
    /\ pc = "parse_json_payload"
    /\ LET r == parse_json_payload(json_payload_str[1])
       IN  IF r.ok
           THEN /\ payload' = r.payload
                /\ out' = out \o r.out
                /\ pc' = "build"
                /\ UNCHANGED exit_code
           ELSE /\ Exit(1, r.out)
                /\ UNCHANGED payload
    /\ UNCHANGED <<argv, environ, raw_output, verbose, multipart, args,
                   endpoint, json_payload_str, http_method, method, headers,
                   files, data, open_files, pending, sent, response>>

\* method, headers and the request information (lines 444-464); an
\* exception of print_verbose_request ends the process with status 1
BuildRequest ==
    /\ pc = "build"
    /\ method' = Some(determine_method(payload, http_method))
    /\ headers' = main_headers(multipart)
    /\ LET r == print_request_info(payload, multipart, raw_output, verbose)
       IN  IF r.raised
           THEN Exit(1, r.out)
           ELSE /\ out' = out \o r.out
                /\ pc' = "make_request"
                /\ UNCHANGED exit_code
    /\ UNCHANGED <<argv, environ, raw_output, verbose, multipart, args,
                   endpoint, json_payload_str, http_method, payload, files,
                   data, open_files, pending, sent, response>>

\* the arguments make_request passes to requests.request
Request(m, hs, kind, js, fs, ds) ==
    [method |-> m, headers |-> hs,
     body |-> [kind |-> kind, json |-> js, files |-> fs, data |-> ds]]

\* make_request up to the call of requests.request (lines 263-273, 282, 284)
MakeRequest ==
    /\ pc = "make_request"
    /\ IF HasBody(method[1], payload)
       THEN IF multipart
            THEN LET u == prepare_file_upload(payload[1])
                 IN  /\ open_files' = open_files \cup
                            {u.files[i] : i \in 1..Len(u.files)}
                     /\ IF u.end = "return"
                        THEN /\ files' = u.files
                             /\ data' = u.data
                             /\ out' = out \o u.out
                             /\ pending' = Some(Request(method[1],
                                    multipart_headers(headers), "multipart",
                                    None, u.files, u.data))
                             /\ pc' = "request"
                             /\ UNCHANGED exit_code
                        ELSE /\ Exit(1, u.out)
                             /\ UNCHANGED <<files, data, pending>>
            ELSE /\ pending' = Some(Request(method[1], headers, "json",
                                            payload, <<>>, <<>>))
                 /\ pc' = "request"
                 /\ UNCHANGED <<files, data, open_files, out, exit_code>>
       ELSE /\ pending' = Some(Request(method[1], headers, "none",
                                       None, <<>>, <<>>))
            /\ pc' = "request"
            /\ UNCHANGED <<files, data, open_files, out, exit_code>>
    /\ UNCHANGED <<argv, environ, raw_output, verbose, multipart, args,
                   endpoint, json_payload_str, http_method, payload, method,
                   headers, sent, response>>

\* the files still open once the finally block of make_request has run
AfterFinally(opened, fs) == opened \ {fs[i] : i \in 1..Len(fs)}

\* make_request calling requests.request again after a RequestException
RequestsRequest_Retry ==
    /\ pc = "request"
    /\ sent' = Append(sent, pending[1])
    /\ \/ \E r \in Responses :
            /\ response' = Some(r)
            /\ pending' = None
            /\ open_files' = IF pending[1].body.kind = "multipart"
                             THEN AfterFinally(open_files, files)
                             ELSE open_files
            /\ pc' = "format_response"
            /\ UNCHANGED <<out, exit_code>>
       \/ /\ Len(sent) < 2
          /\ out' = Append(out, "Request failed")
          /\ UNCHANGED <<pc, pending, open_files, response, exit_code>>
    /\ UNCHANGED <<argv, environ, raw_output, verbose, multipart, args,
                   endpoint, json_payload_str, http_method, payload, method,
                   headers, files, data>>

\* requests.request and what follows it in make_request (lines 274-288):
\* a response or a RequestException, the finally block, return or sys.exit(1)
RequestsRequest ==
    /\ pc = "request"
    /\ sent' = Append(sent, pending[1])
    /\ pending' = None
    /\ open_files' = IF pending[1].body.kind = "multipart"
                     THEN AfterFinally(open_files, files)
                     ELSE open_files
    /\ \/ \E r \in Responses :
            /\ response' = Some(r)
            /\ pc' = "format_response"
            /\ UNCHANGED <<out, exit_code>>
       \/ /\ Exit(1, <<"Request failed">>)
          /\ UNCHANGED response
    /\ UNCHANGED <<argv, environ, raw_output, verbose, multipart, args,
                   endpoint, json_payload_str, http_method, payload, method,
                   headers, files, data>>

\* format_response and the exit of main (lines 470-473)
FormatResponse ==
    /\ pc = "format_response"
    /\ Exit(ExitCodeFor(response[1].status_code),
            format_response(response[1], raw_output, verbose))
    /\ UNCHANGED <<argv, environ, raw_output, verbose, multipart, args,
                   endpoint, json_payload_str, http_method, payload, method,
                   headers, files, data, open_files, pending, sent, response>>

Next ==
    \/ Main
    \/ ValidateEnvironment
    \/ ParseJsonPayload
    \/ BuildRequest
    \/ MakeRequest
    \/ RequestsRequest
    \/ FormatResponse

\* the full runs
Spec == Init /\ [][Next]_vars

\* runs over every short argument list
SpecArgs == InitArgs /\ [][Next]_vars

\* multipart runs over generated payload objects
SpecClassify == InitClassify /\ [][Next]_vars

-----------------------------------------------------------------------------
(* The claims *)

\* msg was printed
Printed(msg) == \E i \in 1..Len(out) : out[i] = msg

\* the keys of an item sequence
KeysOf(items) == {items[i][1] : i \in 1..Len(items)}

\* a received response's status is a success status
StatusIs2xx == response # None /\ response[1].status_code \in 200..299

\* C1: when the process has ended, its exit code is 0 exactly when usage was
\* shown or a response with a status in [200,300) was received, and 1 on
\* every other path; after a response it is decided by the status alone.
C1_ExitCode ==
    pc = "done" =>
        /\ exit_code \in {Some(0), Some(1)}
        /\ exit_code = Some(0) <=> (Printed("Usage") \/ StatusIs2xx)
        /\ response # None =>
               exit_code = Some(IF response[1].status_code >= 200
                                   /\ response[1].status_code < 300
                                THEN 0 ELSE 1)

\* a 200 response that declares JSON, is no JSON, and still exits 0
C1_Witness ==
    /\ pc = "done"
    /\ response # None
    /\ response[1].status_code = 200
    /\ response[1].content_type = "application/json"
    /\ response[1].body = "text"
    /\ Printed("Response claims to be JSON but is not valid JSON:")
    /\ exit_code = Some(0)

\* C2: no upload file is still open when the process has ended.
C2_FilesClosedAtExit == pc = "done" => open_files = {}

\* the field is a file field as C9 words it
ClaimFileField(key, value) ==
    /\ value.t = "str"
    /\ \/ \E n \in { <<"a","r","c","h","i","v","e">>, <<"f","i","l","e">>,
                     <<"u","p","l","o","a","d">>,
                     <<"a","t","t","a","c","h","m","e","n","t">> } :
              /\ Len(n) = Len(key)
              /\ \A i \in 1..Len(n) : LowerChar(key[i]) = n[i]
       \/ Len(value.s) >= 2 /\ value.s[1] = "~" /\ value.s[2] = "/"
       \/ Len(value.s) >= 1 /\ value.s[1] = "/"
       \/ \E i \in 1..Len(value.s) :
              /\ value.s[i] = "."
              /\ \A j \in (i + 1)..Len(value.s) : value.s[j] # "/"

\* the parsed payload is an object with a file field naming no existing file
MissingFileField ==
    /\ payload # None
    /\ payload[1].t = "dict"
    /\ \E i \in 1..Len(payload[1].items) :
           /\ ClaimFileField(payload[1].items[i][1], payload[1].items[i][2])
           /\ ExpandUser(payload[1].items[i][2].s) \notin ExistingFiles

\* C3 as stated: in multipart mode a payload with a file field naming a
\* missing file ends the run with exit code 1 and no request, whatever the
\* method.
C3_Original ==
    (multipart /\ MissingFileField) =>
        /\ sent = <<>>
        /\ pc = "done" => exit_code = Some(1)

\* C3, amended: in multipart mode, when the method is POST, PUT or PATCH, a
\* payload with a file field naming a missing file ends the run with exit
\* code 1 and no request.
C3_MissingFileStopsUpload ==
    (/\ multipart
     /\ MissingFileField
     /\ method # None
     /\ method[1] \in { <<"P","O","S","T">>, <<"P","U","T">>,
                        <<"P","A","T","C","H">> }) =>
        /\ sent = <<>>
        /\ pending = None
        /\ pc = "done" => exit_code = Some(1)

\* a PUT upload that ended at a missing file
C3_Witness ==
    /\ pc = "done"
    /\ multipart
    /\ MissingFileField
    /\ method = Some(<<"P","U","T">>)
    /\ Printed("Error: File not found")
    /\ exit_code = Some(1)
    /\ sent = <<>>

\* C4: in raw mode, once a response was received, the whole output is the
\* response body and the exit code follows the status.
C4_RawOutputIsBody ==
    (pc = "done" /\ raw_output /\ response # None) =>
        /\ out = <<"<body>">>
        /\ exit_code = Some(IF StatusIs2xx THEN 0 ELSE 1)

\* MEALIE_URL or MEALIE_TOKEN is unset or empty
EnvMissing ==
    \/ environ.MEALIE_URL \in {None, Some("")}
    \/ environ.MEALIE_TOKEN \in {None, Some("")}

\* C5: with MEALIE_URL or MEALIE_TOKEN unset or empty, a run that has an
\* endpoint exits with code 1, and never gets past the validation: no
\* payload is parsed, no file classified or opened, no request made.
C5_EnvironmentFirst ==
    EnvMissing =>
        /\ pc \in {"main", "validate_environment", "done"}
        /\ sent = <<>> /\ pending = None /\ response = None
        /\ payload = None /\ method = None
        /\ files = <<>> /\ data = <<>> /\ open_files = {}
        /\ ~Printed("Fixed shell escapes in JSON payload")
        /\ ~Printed("Error: Invalid JSON payload")
        /\ (pc = "done" /\ endpoint # None) => exit_code = Some(1)

\* a run with an endpoint, an upload payload and no token, ended with 1
C5_Witness ==
    /\ pc = "done"
    /\ endpoint # None
    /\ environ.MEALIE_URL = Some("https://mealie.example/")
    /\ environ.MEALIE_TOKEN = None
    /\ json_payload_str = Some(EscTok)
    /\ exit_code = Some(1)

\* the run ended before the request: usage, a missing environment variable,
\* a payload that is no JSON, a missing file, or a payload that is no object
\* where multipart mode needs its fields
PreNetworkFatal ==
    \/ Printed("Usage")
    \/ Printed("Error: MEALIE_URL environment variable is not set")
    \/ Printed("Error: MEALIE_TOKEN environment variable is not set")
    \/ Printed("Error: Invalid JSON payload")
    \/ Printed("Error: File not found")
    \/ /\ payload # None /\ payload[1].t # "dict" /\ multipart
       /\ \/ verbose
          \/ method[1] \in { <<"P","O","S","T">>, <<"P","U","T">>,
                             <<"P","A","T","C","H">> }

MethodIs(m) ==
    /\ method # None => method[1] = m
    /\ pending # None => pending[1].method = m
    /\ \A i \in 1..Len(sent) : sent[i].method = m

\* the payload argument is missing, empty or whitespace
BlankPayloadArg ==
    \/ Len(args) < 2
    \/ \A i \in 1..Len(args[2].text) : args[2].text[i] \in {" ", "\t", "\n"}

\* C7 as stated: the method is the method argument in upper case whenever
\* one is supplied, else POST with a payload and GET without.
C7_Original ==
    method # None =>
        MethodIs(IF http_method # None THEN Upper(http_method[1])
                 ELSE IF payload # None THEN <<"P","O","S","T">>
                 ELSE <<"G","E","T">>)

\* C7, amended: the method is the method argument in upper case whenever a
\* non-empty one is supplied; with none, or an empty one, it is POST when
\* the payload is present (an empty object included) and GET when it is
\* absent, as it is for a missing, empty or whitespace-only argument.
C7_Method ==
    method # None =>
        /\ MethodIs(IF http_method # None /\ Len(http_method[1]) > 0
                    THEN Upper(http_method[1])
                    ELSE IF payload # None THEN <<"P","O","S","T">>
                    ELSE <<"G","E","T">>)
        /\ BlankPayloadArg => payload = None
        /\ json_payload_str = Some(ObjTok(<<>>)) => payload # None

\* an empty method argument with an empty object: the request is a POST
C7_Witness ==
    /\ Len(sent) = 1
    /\ http_method = Some(<<>>)
    /\ json_payload_str = Some(ObjTok(<<>>))
    /\ sent[1].method = <<"P","O","S","T">>

\* the argument is one of the six flag spellings
IsFlagArg(a) ==
    a.text \in { F_r.text, F_raw.text, F_v.text, F_verbose.text,
                 F_m.text, F_multipart.text }

NotFlagArg(a) == ~IsFlagArg(a)

\* C8: once main has read its arguments, every flag, wherever and however
\* often it occurs, has set its option and is gone from the positional
\* arguments, which are the non-flag arguments in their order.
C8_FlagsStripped ==
    pc # "main" =>
        LET rest == SelectSeq(argv, NotFlagArg)
        IN  /\ args = rest
            /\ raw_output = (HasArg(argv, F_r.text) \/ HasArg(argv, F_raw.text))
            /\ verbose = (HasArg(argv, F_v.text) \/ HasArg(argv, F_verbose.text))
            /\ multipart =
                   (HasArg(argv, F_m.text) \/ HasArg(argv, F_multipart.text))
            /\ endpoint # None =>
                   /\ endpoint = Some(rest[1].text)
                   /\ json_payload_str =
                          Some(IF Len(rest) > 1 THEN rest[2] ELSE A_empty)
                   /\ http_method =
                          IF Len(rest) > 2 THEN Some(rest[3].text) ELSE None

\* a multipart body was built: the classification has completed
Classified ==
    \/ pending # None /\ pending[1].body.kind = "multipart"
    \/ sent # <<>> /\ sent[1].body.kind = "multipart"

\* C9: when the classification of a payload has completed, the file fields
\* and the plain fields partition the payload's keys, a key is a file field
\* exactly under the stated condition, and a plain field keeps its value.
C9_Partition ==
    Classified =>
        LET items == payload[1].items
        IN  /\ KeysOf(files) \cap KeysOf(data) = {}
            /\ KeysOf(files) \cup KeysOf(data) = KeysOf(items)
            /\ \A i \in 1..Len(items) :
                   /\ items[i][1] \in KeysOf(files)
                          <=> ClaimFileField(items[i][1], items[i][2])
                   /\ items[i][1] \notin KeysOf(files) =>
                          \E j \in 1..Len(data) : data[j] = items[i]

\* a classification with a file picked by its key's name in another case
\* and a plain field beside it
C9_Witness ==
    /\ pc = "request"
    /\ Classified
    /\ files = << <<K_File, V_rel.s>> >>
    /\ data = << <<K_name, V_dotdir>> >>

\* the requests made or about to be made
Requests == sent \o pending

\* C10: a request has a body exactly when its method is POST, PUT or PATCH
\* and the payload is present: the classified payload without a
\* Content-Type header in multipart mode, the payload as JSON otherwise.
\* With another method or no payload, nothing is classified or opened.
C10_Body ==
    /\ \A i \in 1..Len(Requests) :
           LET r == Requests[i]
               withBody == /\ r.method \in { <<"P","O","S","T">>,
                                              <<"P","U","T">>,
                                              <<"P","A","T","C","H">> }
                           /\ payload # None
           IN  /\ r.body.kind # "none" <=> withBody
               /\ (withBody /\ multipart) =>
                      /\ r.body.kind = "multipart"
                      /\ H_ContentType \notin r.headers
                      /\ r.body.files = files /\ r.body.data = data
                      /\ KeysOf(files) \cup KeysOf(data)
                             = KeysOf(payload[1].items)
               /\ (withBody /\ ~multipart) =>
                      /\ r.body.kind = "json"
                      /\ r.body.json = payload
                      /\ H_ContentType \in r.headers
    /\ (/\ method # None
        /\ ~(/\ method[1] \in { <<"P","O","S","T">>, <<"P","U","T">>,
                                <<"P","A","T","C","H">> }
             /\ payload # None)) =>
           /\ files = <<>> /\ data = <<>> /\ open_files = {}
           /\ ~Printed("Adding file upload")
           /\ ~Printed("Error: File not found")

\* a PATCH in multipart mode sent with an attached file
C10_Witness ==
    /\ Len(sent) = 1
    /\ sent[1].method = <<"P","A","T","C","H">>
    /\ sent[1].body.kind = "multipart"
    /\ Len(sent[1].body.files) = 1
    /\ H_ContentType \notin sent[1].headers

====
